---------------------------- MODULE Spec2Model ----------------------------
(***************************************************************************)
(* CustodyChain asset chaincode (smartcontract.go): the world state and    *)
(* the eight transaction functions of SmartContract.                       *)
(*                                                                         *)
(* Go strings are byte sequences; a string is modelled as a sequence of    *)
(* byte values 0..255.  The world state maps a key to the stored JSON, or  *)
(* to nil when the key has no value.  A stored JSON object is modelled as  *)
(* the ordered list of its members <<name, body>>, where body is the       *)
(* quoted string literal's bytes between the quotes, exactly as            *)
(* encoding/json writes and reads them.                                    *)
(***************************************************************************)
EXTENDS Integers, Sequences, FiniteSets, TLC

VARIABLES store, pre, call, ret, iter, caller, serialized, sameKey

vars == <<store, pre, call, ret, iter, caller, serialized, sameKey>>

-----------------------------------------------------------------------------
(* String literals of the program, as bytes. *)

Zaki  == <<90, 97, 107, 105>>
Aya   == <<65, 121, 97>>
Adi   == <<65, 100, 105>>
Dan   == <<68, 97, 110>>
Azmi  == <<65, 122, 109, 105>>
Mirul == <<77, 105, 114, 117, 108>>

RCED == <<82, 67, 69, 68>>
RBPF == <<82, 66, 80, 70>>
KDN  == <<75, 68, 78>>
CSB  == <<67, 83, 66>>

\* "HP01/HP02"
Evidence1 == <<72, 80, 48, 49, 47, 72, 80, 48, 50>>
\* "HP01/HP02/HP03"
Evidence2 == <<72, 80, 48, 49, 47, 72, 80, 48, 50, 47, 72, 80, 48, 51>>
\* "HP01/HP02/SIM01/SIM02"
Evidence3 == <<72, 80, 48, 49, 47, 72, 80, 48, 50, 47, 83, 73, 77, 48, 49,
               47, 83, 73, 77, 48, 50>>
\* "HP01/HP02/SIM01/"
Evidence4 == <<72, 80, 48, 49, 47, 72, 80, 48, 50, 47, 83, 73, 77, 48, 49, 47>>
\* "HP01/HP02/HP03/SIM01/SIM02"
Evidence5 == <<72, 80, 48, 49, 47, 72, 80, 48, 50, 47, 72, 80, 48, 51, 47,
               83, 73, 77, 48, 49, 47, 83, 73, 77, 48, 50>>
\* "HP01/HP02/HP03/SIM01/SIM02/SIM03"
Evidence6 == <<72, 80, 48, 49, 47, 72, 80, 48, 50, 47, 72, 80, 48, 51, 47,
               83, 73, 77, 48, 49, 47, 83, 73, 77, 48, 50, 47, 83, 73, 77,
               48, 51>>

\* The Asset struct: one string per field.
Asset(name, agency, caseNo, evidence) ==
    [custodianName |-> name, custodianAgency |-> agency,
     caseNumber |-> caseNo, evidenceInfo |-> evidence]

\* The zero Asset that `var asset Asset` declares.
ZeroAsset == Asset(<<>>, <<>>, <<>>, <<>>)

\* The slice literal of InitLedger, in its order.
SeedAssets ==
    << Asset(Zaki,  RCED, <<49>>, Evidence1),
       Asset(Aya,   RBPF, <<50>>, Evidence2),
       Asset(Adi,   KDN,  <<51>>, Evidence3),
       Asset(Dan,   CSB,  <<52>>, Evidence4),
       Asset(Azmi,  RCED, <<53>>, Evidence5),
       Asset(Mirul, CSB,  <<54>>, Evidence6) >>

SeedKeys == {SeedAssets[i].custodianName : i \in 1..Len(SeedAssets)}

\* The CaseNumber values of the slice literal: "1" to "6".
SeedCaseNumbers == {SeedAssets[i].caseNumber : i \in 1..Len(SeedAssets)}

-----------------------------------------------------------------------------
(* encoding/json on strings. *)

\* The lower-case hexadecimal digit of n in 0..15, as json writes \u00xx.
HexDigit(n) == IF n < 10 THEN 48 + n ELSE 87 + n

\* The value of a hexadecimal digit byte, -1 when it is none.
HexVal(b) ==
    IF b \in 48..57 THEN b - 48
    ELSE IF b \in 97..102 THEN b - 87
    ELSE IF b \in 65..70 THEN b - 55
    ELSE -1

IsCont(s, i) == i <= Len(s) /\ s[i] \in 128..191

\* utf8.DecodeRune at s[i] >= 0x80: the width of the well-formed sequence
\* that starts there, 0 when the byte starts none (RuneError of width 1).
RuneLen(s, i) ==
    LET b == s[i] IN
    IF b \in 194..223 /\ IsCont(s, i + 1) THEN 2
    ELSE IF b \in 224..239 /\ IsCont(s, i + 1) /\ IsCont(s, i + 2)
            /\ (b = 224 => s[i + 1] >= 160) /\ (b = 237 => s[i + 1] <= 159)
         THEN 3
    ELSE IF b \in 240..244 /\ IsCont(s, i + 1) /\ IsCont(s, i + 2)
            /\ IsCont(s, i + 3)
            /\ (b = 240 => s[i + 1] >= 144) /\ (b = 244 => s[i + 1] <= 143)
         THEN 4
    ELSE 0

\* The six characters of the escape for U+FFFD, which the encoder writes
\* for an invalid byte.
EscapedRuneError == <<92, 117, 102, 102, 102, 100>>

\* The UTF-8 bytes of U+FFFD, which the decoder produces for it.
RuneErrorBytes == <<239, 191, 189>>

\* The encoder's step, were it to copy a quote or a backslash as it is.
EncodeByteAtRaw(s, i) ==
    LET b == s[i] IN
    IF b < 128 THEN <<b>>
    ELSE IF RuneLen(s, i) = 0 THEN EscapedRuneError
    ELSE SubSeq(s, i, i + RuneLen(s, i) - 1)

\* One step of the encoder's string loop: the bytes written for s[i].
EncodeByteAt(s, i) ==
    LET b == s[i] IN
    IF b = 34 \/ b = 92 THEN <<92, b>>
    ELSE IF b = 10 THEN <<92, 110>>
    ELSE IF b = 13 THEN <<92, 114>>
    ELSE IF b = 9 THEN <<92, 116>>
    ELSE IF b < 32 \/ b \in {60, 62, 38}
         THEN <<92, 117, 48, 48, HexDigit(b \div 16), HexDigit(b % 16)>>
    ELSE IF b < 128 THEN <<b>>
    ELSE IF RuneLen(s, i) = 0 THEN EscapedRuneError
    ELSE IF RuneLen(s, i) = 3 /\ s[i] = 226 /\ s[i + 1] = 128
            /\ s[i + 2] \in {168, 169}
         THEN <<92, 117, 50, 48, 50, HexDigit(s[i + 2] - 160)>>
    ELSE SubSeq(s, i, i + RuneLen(s, i) - 1)

\* How many bytes of s the step at i consumes.
StepAt(s, i) == IF s[i] < 128 \/ RuneLen(s, i) = 0 THEN 1 ELSE RuneLen(s, i)

RECURSIVE EncodeFrom(_, _)
EncodeFrom(s, i) ==
    IF i > Len(s) THEN <<>>
    ELSE EncodeByteAt(s, i) \o EncodeFrom(s, i + StepAt(s, i))

\* json.Marshal of a Go string, without the surrounding quotes.
EncodeString(s) == EncodeFrom(s, 1)

\* utf8.EncodeRune, with the decoder's U+FFFD for a lone surrogate.
EncodeRune(cp) ==
    IF cp < 128 THEN <<cp>>
    ELSE IF cp < 2048 THEN <<192 + (cp \div 64), 128 + (cp % 64)>>
    ELSE IF cp \in 55296..57343 THEN RuneErrorBytes
    ELSE <<224 + (cp \div 4096), 128 + ((cp \div 64) % 64), 128 + (cp % 64)>>

\* Whether a \uXXXX escape starts at q[i] (q[i] is the backslash).
IsUEscape(q, i) ==
    /\ i + 5 <= Len(q)
    /\ q[i + 1] = 117
    /\ \A j \in 2..5 : HexVal(q[i + j]) >= 0

UEscapeValue(q, i) ==
    4096 * HexVal(q[i + 2]) + 256 * HexVal(q[i + 3])
        + 16 * HexVal(q[i + 4]) + HexVal(q[i + 5])

\* The characters that may follow a backslash, and what each stands for.
SimpleEscape(b) ==
    IF b \in {34, 92, 47} THEN b
    ELSE IF b = 98 THEN 8
    ELSE IF b = 102 THEN 12
    ELSE IF b = 110 THEN 10
    ELSE IF b = 114 THEN 13
    ELSE IF b = 116 THEN 9
    ELSE -1

\* The scanner's check of a string literal body: no raw quote or control
\* byte, and every backslash starts a known escape.
RECURSIVE ValidFrom(_, _)
ValidFrom(q, i) ==
    IF i > Len(q) THEN TRUE
    ELSE IF q[i] = 92
         THEN IF i + 1 <= Len(q) /\ SimpleEscape(q[i + 1]) >= 0
                 THEN ValidFrom(q, i + 2)
              ELSE IF IsUEscape(q, i) THEN ValidFrom(q, i + 6)
              ELSE FALSE
    ELSE IF q[i] = 34 \/ q[i] < 32 THEN FALSE
    ELSE ValidFrom(q, i + 1)

ValidQuoted(q) == ValidFrom(q, 1)

\* unquote: the Go string of a valid string literal body.
RECURSIVE DecodeFrom(_, _)
DecodeFrom(q, i) ==
    IF i > Len(q) THEN <<>>
    ELSE IF q[i] = 92
         THEN IF q[i + 1] = 117
                 THEN EncodeRune(UEscapeValue(q, i)) \o DecodeFrom(q, i + 6)
              ELSE <<SimpleEscape(q[i + 1])>> \o DecodeFrom(q, i + 2)
    ELSE IF q[i] < 128 THEN <<q[i]>> \o DecodeFrom(q, i + 1)
    ELSE IF RuneLen(q, i) = 0 THEN RuneErrorBytes \o DecodeFrom(q, i + 1)
    ELSE SubSeq(q, i, i + RuneLen(q, i) - 1)
             \o DecodeFrom(q, i + RuneLen(q, i))

DecodeString(q) == DecodeFrom(q, 1)

-----------------------------------------------------------------------------
(* encoding/json on the Asset struct. *)

\* The JSON names of the fields, in the order the struct declares them.
AssetFields ==
    <<"custodianName", "custodianAgency", "caseNumber", "evidenceInfo">>

\* json.Marshal(asset): one member per field, in declaration order.
Marshal(asset) ==
    [i \in 1..Len(AssetFields) |->
        <<AssetFields[i], EncodeString(asset[AssetFields[i]])>>]

\* json.Unmarshal(value, &asset): err is TRUE when a literal is malformed;
\* else each member sets the field of its name, a later member winning, and
\* a member of an unknown name is skipped.
RECURSIVE SetMembers(_, _, _)
SetMembers(asset, value, i) ==
    IF i > Len(value) THEN asset
    ELSE SetMembers(
            IF value[i][1] \in DOMAIN asset
               THEN [asset EXCEPT ![value[i][1]] = DecodeString(value[i][2])]
               ELSE asset,
            value, i + 1)

Unmarshal(value) ==
    IF \E i \in 1..Len(value) : ~ValidQuoted(value[i][2])
       THEN [err |-> TRUE, asset |-> ZeroAsset]
       ELSE [err |-> FALSE, asset |-> SetMembers(ZeroAsset, value, 1)]

-----------------------------------------------------------------------------
(* The world state behind ctx.GetStub(). *)

\* Inputs of the transactions.  One ("1") is the case number of the first
\* seed record and a key that InitLedger does not write; Bad is a string
\* that is not valid UTF-8.
One == <<49>>
Bad == <<255>>

Keys == {Zaki, One}

\* The keys of the model's world state: those above, the keys InitLedger
\* writes, and the seeded case numbers, which TransferAsset may be given.
AllKeys == SeedKeys \cup Keys \cup SeedCaseNumbers

\* (custodianAgency, caseNumber, evidenceInfo) arguments of CreateAsset and
\* UpdateAsset: KDN, "7", SIM"9" and \xff, "1", HP\xff.
FieldInputs ==
    { <<KDN, <<55>>, <<83, 73, 77, 34, 57, 34>>>>,
      <<Bad, One, <<72, 80, 255>>>> }

\* The last position at which a PutState of InitLedger is made to fail, and
\* the last at which a Next of the iterator is.
MaxSeedFault == 3
MaxNextFault == 2

\* How many clients invoke CreateAsset at the same time.
MaxCallers == 3

Callers == 1..MaxCallers

Min(a, b) == IF a < b THEN a ELSE b

\* (newcustodianName, newcustodianAgency) arguments of TransferAsset.
TransferInputs == {<<Aya, RBPF>>, <<Bad, CSB>>}

\* A key without a value: GetState returns nil.
Nil == <<>>

NoErr        == "nil"
ErrExists    == "the asset already exists"
ErrNotExist  == "the asset does not exist"
ErrRead      == "failed to read from world state"
ErrPutSeed   == "failed to put to world state"
ErrPut       == "PutState error"
ErrDel       == "DelState error"
ErrUnmarshal == "Unmarshal error"
ErrRange     == "GetStateByRange error"
ErrNext      == "Next error"

\* stub.GetState(key); fault = "get" is a failing read.
GetState(st, key, fault) ==
    IF fault = "get" THEN [err |-> ErrRead, value |-> Nil]
    ELSE [err |-> NoErr, value |-> st[key]]

\* stub.PutState(key, value); fault = "put" is a failing write.
PutState(st, key, value, fault) ==
    IF fault = "put" THEN [store |-> st, err |-> ErrPut]
    ELSE [store |-> [st EXCEPT ![key] = value], err |-> NoErr]

\* stub.DelState(key); fault = "del" is a failing delete.
DelState(st, key, fault) ==
    IF fault = "del" THEN [store |-> st, err |-> ErrDel]
    ELSE [store |-> [st EXCEPT ![key] = Nil], err |-> NoErr]

\* Byte-wise lexical order of keys, the order of a range query.
RECURSIVE LexLess(_, _)
LexLess(a, b) ==
    IF b = <<>> THEN FALSE
    ELSE IF a = <<>> THEN TRUE
    ELSE IF a[1] # b[1] THEN a[1] < b[1]
    ELSE LexLess(Tail(a), Tail(b))

RECURSIVE SortKeys(_)
SortKeys(ks) ==
    IF ks = {} THEN <<>>
    ELSE LET m == CHOOSE k \in ks : \A o \in ks \ {k} : LexLess(k, o)
         IN <<m>> \o SortKeys(ks \ {m})

\* stub.GetStateByRange("", ""): the (key, value) pairs of the keys that
\* have a value, in key order.
GetStateByRange(st) ==
    LET ks == SortKeys({k \in DOMAIN st : st[k] # Nil})
    IN [i \in 1..Len(ks) |-> [Key |-> ks[i], Value |-> st[ks[i]]]]

-----------------------------------------------------------------------------
(* The transaction functions: each maps the world state, the arguments and
   the injected store fault to the resulting world state and the return. *)

Return(st, err, val) == [store |-> st, err |-> err, val |-> val]

\* InitLedger: the loop from the i-th seed asset on; failAt is the position
\* of the asset whose PutState fails (0: none fails).
RECURSIVE InitLedgerFrom(_, _, _)
InitLedgerFrom(st, i, failAt) ==
    IF i > Len(SeedAssets) THEN Return(st, NoErr, <<>>)
    ELSE LET asset == SeedAssets[i]
             put == PutState(st, asset.custodianName, Marshal(asset),
                             IF i = failAt THEN "put" ELSE "none")
         IN IF put.err # NoErr THEN Return(put.store, ErrPutSeed, <<>>)
            ELSE InitLedgerFrom(put.store, i + 1, failAt)

\* InitLedger, were it to seed only a ledger that holds nothing yet.
InitLedgerOnce(st, failAt) ==
    IF \E k \in DOMAIN st : st[k] # Nil THEN Return(st, NoErr, <<>>)
    ELSE InitLedgerFrom(st, 1, failAt)

\* The loop of InitLedger, were it to go on to the next asset after a
\* failed PutState and report the failure at the end.
RECURSIVE InitLedgerKeepGoingFrom(_, _, _, _)
InitLedgerKeepGoingFrom(st, i, failAt, err) ==
    IF i > Len(SeedAssets) THEN Return(st, err, <<>>)
    ELSE LET asset == SeedAssets[i]
             put == PutState(st, asset.custodianName, Marshal(asset),
                             IF i = failAt THEN "put" ELSE "none")
         IN InitLedgerKeepGoingFrom(put.store, i + 1, failAt,
                IF put.err # NoErr THEN ErrPutSeed ELSE err)

InitLedgerKeepGoing(st, failAt) == InitLedgerKeepGoingFrom(st, 1, failAt, NoErr)

\* The loop of InitLedger, were it to put each asset under its CaseNumber.
RECURSIVE InitLedgerByCaseFrom(_, _, _)
InitLedgerByCaseFrom(st, i, failAt) ==
    IF i > Len(SeedAssets) THEN Return(st, NoErr, <<>>)
    ELSE LET asset == SeedAssets[i]
             put == PutState(st, asset.caseNumber, Marshal(asset),
                             IF i = failAt THEN "put" ELSE "none")
         IN IF put.err # NoErr THEN Return(put.store, ErrPutSeed, <<>>)
            ELSE InitLedgerByCaseFrom(put.store, i + 1, failAt)

InitLedgerByCase(st, failAt) == InitLedgerByCaseFrom(st, 1, failAt)

InitLedger(st, failAt) == InitLedgerFrom(st, 1, failAt)

\* AssetExists, were it to report the success of the read.
AssetExistsReadOk(st, custodianName, fault) ==
    LET got == GetState(st, custodianName, fault)
    IN IF got.err # NoErr THEN Return(st, ErrRead, FALSE)
       ELSE Return(st, NoErr, got.err = NoErr)

AssetExists(st, custodianName, fault) ==
    LET got == GetState(st, custodianName, fault)
    IN IF got.err # NoErr THEN Return(st, ErrRead, FALSE)
       ELSE Return(st, NoErr, got.value # Nil)

ReadAsset(st, custodianName, fault) ==
    LET got == GetState(st, custodianName, fault)
    IN IF got.err # NoErr THEN Return(st, ErrRead, ZeroAsset)
       ELSE IF got.value = Nil THEN Return(st, ErrNotExist, ZeroAsset)
       ELSE LET dec == Unmarshal(got.value)
            IN IF dec.err THEN Return(st, ErrUnmarshal, ZeroAsset)
               ELSE Return(st, NoErr, dec.asset)

\* CreateAsset, were it to put without the existence check.
CreateAssetUnchecked(st, custodianName, custodianAgency, caseNumber, evidenceInfo, fault) ==
    LET exists == AssetExists(st, custodianName, fault)
    IN IF exists.err # NoErr THEN Return(st, exists.err, <<>>)
       ELSE LET asset == Asset(custodianName, custodianAgency, caseNumber,
                               evidenceInfo)
                put == PutState(st, custodianName, Marshal(asset), fault)
            IN Return(put.store, put.err, <<>>)

\* CreateAsset, were two of its string arguments to land in each other's
\* field.
CreateAssetSwapped(st, custodianName, custodianAgency, caseNumber, evidenceInfo, fault) ==
    LET exists == AssetExists(st, custodianName, fault)
    IN IF exists.err # NoErr THEN Return(st, exists.err, <<>>)
       ELSE IF exists.val THEN Return(st, ErrExists, <<>>)
       ELSE LET asset == Asset(custodianName, custodianAgency, evidenceInfo,
                               caseNumber)
                put == PutState(st, custodianName, Marshal(asset), fault)
            IN Return(put.store, put.err, <<>>)

\* CreateAsset, were it to go on after a failed read of the existence check.
CreateAssetIgnoreReadErr(st, custodianName, custodianAgency, caseNumber, evidenceInfo, fault) ==
    LET exists == AssetExists(st, custodianName, fault)
    IN IF exists.val THEN Return(st, ErrExists, <<>>)
       ELSE LET asset == Asset(custodianName, custodianAgency, caseNumber,
                               evidenceInfo)
                put == PutState(st, custodianName, Marshal(asset), fault)
            IN Return(put.store, put.err, <<>>)

\* CreateAsset, were it to put the asset and then report the key as taken.
CreateAssetPutFirst(st, custodianName, custodianAgency, caseNumber, evidenceInfo, fault) ==
    LET exists == AssetExists(st, custodianName, fault)
        asset == Asset(custodianName, custodianAgency, caseNumber,
                       evidenceInfo)
        put == PutState(st, custodianName, Marshal(asset), fault)
    IN IF exists.err # NoErr THEN Return(st, exists.err, <<>>)
       ELSE IF exists.val THEN Return(put.store, ErrExists, <<>>)
       ELSE Return(put.store, put.err, <<>>)

CreateAsset(st, custodianName, custodianAgency, caseNumber, evidenceInfo, fault) ==
    LET exists == AssetExists(st, custodianName, fault)
    IN IF exists.err # NoErr THEN Return(st, exists.err, <<>>)
       ELSE IF exists.val THEN Return(st, ErrExists, <<>>)
       ELSE LET asset == Asset(custodianName, custodianAgency, caseNumber,
                               evidenceInfo)
                put == PutState(st, custodianName, Marshal(asset), fault)
            IN Return(put.store, put.err, <<>>)

\* UpdateAsset, were it to put without the existence check.
UpdateAssetUpsert(st, custodianName, custodianAgency, caseNumber, evidenceInfo, fault) ==
    LET exists == AssetExists(st, custodianName, fault)
    IN IF exists.err # NoErr THEN Return(st, exists.err, <<>>)
       ELSE LET asset == Asset(custodianName, custodianAgency, caseNumber,
                               evidenceInfo)
                put == PutState(st, custodianName, Marshal(asset), fault)
            IN Return(put.store, put.err, <<>>)

\* UpdateAsset, were it to change the stored asset in place and keep the
\* custodianName it holds.
UpdateAssetInPlace(st, custodianName, custodianAgency, caseNumber, evidenceInfo, fault) ==
    LET read == ReadAsset(st, custodianName, fault)
    IN IF read.err # NoErr THEN Return(st, read.err, <<>>)
       ELSE LET asset == [read.val EXCEPT
                             !.custodianAgency = custodianAgency,
                             !.caseNumber = caseNumber,
                             !.evidenceInfo = evidenceInfo]
                put == PutState(st, custodianName, Marshal(asset), fault)
            IN Return(put.store, put.err, <<>>)

UpdateAsset(st, custodianName, custodianAgency, caseNumber, evidenceInfo, fault) ==
    LET exists == AssetExists(st, custodianName, fault)
    IN IF exists.err # NoErr THEN Return(st, exists.err, <<>>)
       ELSE IF ~exists.val THEN Return(st, ErrNotExist, <<>>)
       ELSE LET asset == Asset(custodianName, custodianAgency, caseNumber,
                               evidenceInfo)
                put == PutState(st, custodianName, Marshal(asset), fault)
            IN Return(put.store, put.err, <<>>)

DeleteAsset(st, custodianName, fault) ==
    LET exists == AssetExists(st, custodianName, fault)
    IN IF exists.err # NoErr THEN Return(st, exists.err, <<>>)
       ELSE IF ~exists.val THEN Return(st, ErrNotExist, <<>>)
       ELSE LET del == DelState(st, custodianName, fault)
            IN Return(del.store, del.err, <<>>)

\* TransferAsset, were it to read the old name after assigning the new one.
TransferAssetLateRead(st, caseNumber, newcustodianName, newcustodianAgency, fault) ==
    LET read == ReadAsset(st, caseNumber, fault)
    IN IF read.err # NoErr THEN Return(st, read.err, <<>>)
       ELSE LET asset == [read.val EXCEPT
                             !.custodianName = newcustodianName,
                             !.custodianAgency = newcustodianAgency]
                oldcustodianName == asset.custodianName
                put == PutState(st, caseNumber, Marshal(asset), fault)
            IN IF put.err # NoErr THEN Return(put.store, put.err, <<>>)
               ELSE Return(put.store, NoErr, oldcustodianName)

\* TransferAsset, were it to move the record to the key of the new name.
TransferAssetRekey(st, caseNumber, newcustodianName, newcustodianAgency, fault) ==
    LET read == ReadAsset(st, caseNumber, fault)
    IN IF read.err # NoErr THEN Return(st, read.err, <<>>)
       ELSE LET oldcustodianName == read.val.custodianName
                asset == [read.val EXCEPT
                             !.custodianName = newcustodianName,
                             !.custodianAgency = newcustodianAgency]
                del == DelState(st, caseNumber, fault)
                put == PutState(del.store, newcustodianName, Marshal(asset),
                                fault)
            IN IF put.err # NoErr THEN Return(st, put.err, <<>>)
               ELSE Return(put.store, NoErr, oldcustodianName)

\* TransferAsset, were it to put the record under the new name as well.
TransferAssetCopy(st, caseNumber, newcustodianName, newcustodianAgency, fault) ==
    LET read == ReadAsset(st, caseNumber, fault)
    IN IF read.err # NoErr THEN Return(st, read.err, <<>>)
       ELSE LET oldcustodianName == read.val.custodianName
                asset == [read.val EXCEPT
                             !.custodianName = newcustodianName,
                             !.custodianAgency = newcustodianAgency]
                put == PutState(st, caseNumber, Marshal(asset), fault)
                copy == PutState(put.store, newcustodianName, Marshal(asset),
                                 fault)
            IN IF put.err # NoErr THEN Return(put.store, put.err, <<>>)
               ELSE Return(copy.store, NoErr, oldcustodianName)

\* TransferAsset, were it to return the key of the record.
TransferAssetReturnsKey(st, caseNumber, newcustodianName, newcustodianAgency, fault) ==
    LET read == ReadAsset(st, caseNumber, fault)
    IN IF read.err # NoErr THEN Return(st, read.err, <<>>)
       ELSE LET asset == [read.val EXCEPT
                             !.custodianName = newcustodianName,
                             !.custodianAgency = newcustodianAgency]
                put == PutState(st, caseNumber, Marshal(asset), fault)
            IN IF put.err # NoErr THEN Return(put.store, put.err, <<>>)
               ELSE Return(put.store, NoErr, caseNumber)

TransferAsset(st, caseNumber, newcustodianName, newcustodianAgency, fault) ==
    LET read == ReadAsset(st, caseNumber, fault)
    IN IF read.err # NoErr THEN Return(st, read.err, <<>>)
       ELSE LET oldcustodianName == read.val.custodianName
                asset == [read.val EXCEPT
                             !.custodianName = newcustodianName,
                             !.custodianAgency = newcustodianAgency]
                put == PutState(st, caseNumber, Marshal(asset), fault)
            IN IF put.err # NoErr THEN Return(put.store, put.err, <<>>)
               ELSE Return(put.store, NoErr, oldcustodianName)

\* The return of GetAllAssets, with the calls it made on resultsIterator.
IterReturn(st, err, val, calls) == [store |-> st, err |-> err, val |-> val, calls |-> calls]

\* The loop of GetAllAssets, were it to stop one query result early.
RECURSIVE GetAllAssetsShort(_, _, _, _, _, _)
GetAllAssetsShort(st, results, i, assets, failAt, calls) ==
    IF i >= Len(results)
       THEN IterReturn(st, NoErr, assets, Append(calls, "HasNext"))
    ELSE LET called == calls \o <<"HasNext", "Next">>
             dec == Unmarshal(results[i].Value)
         IN IF i = failAt THEN IterReturn(st, ErrNext, <<>>, called)
            ELSE IF dec.err THEN IterReturn(st, ErrUnmarshal, <<>>, called)
            ELSE GetAllAssetsShort(st, results, i + 1,
                                   Append(assets, dec.asset), failAt, called)

\* The loop of GetAllAssets, were it to pass over an entry that does not
\* decode.
RECURSIVE GetAllAssetsSkipBad(_, _, _, _, _, _)
GetAllAssetsSkipBad(st, results, i, assets, failAt, calls) ==
    IF i > Len(results)
       THEN IterReturn(st, NoErr, assets, Append(calls, "HasNext"))
    ELSE LET called == calls \o <<"HasNext", "Next">>
             dec == Unmarshal(results[i].Value)
         IN IF i = failAt THEN IterReturn(st, ErrNext, <<>>, called)
            ELSE GetAllAssetsSkipBad(st, results, i + 1,
                    IF dec.err THEN assets ELSE Append(assets, dec.asset),
                    failAt, called)

\* GetAllAssets: the loop from the i-th query result on, assets being the
\* slice built so far and calls the calls made on resultsIterator so far;
\* failAt is the position whose Next fails (0: none).
RECURSIVE GetAllAssetsFrom(_, _, _, _, _, _)
GetAllAssetsFrom(st, results, i, assets, failAt, calls) ==
    IF i > Len(results)
       THEN IterReturn(st, NoErr, assets, Append(calls, "HasNext"))
    ELSE LET called == calls \o <<"HasNext", "Next">>
             dec == Unmarshal(results[i].Value)
         IN IF i = failAt THEN IterReturn(st, ErrNext, <<>>, called)
            ELSE IF dec.err THEN IterReturn(st, ErrUnmarshal, <<>>, called)
            ELSE GetAllAssetsFrom(st, results, i + 1,
                                  Append(assets, dec.asset), failAt, called)

\* GetAllAssets, were it to close the iterator after the loop instead of
\* deferring the Close.
GetAllAssetsCloseAtEnd(st, fault, failAt) ==
    IF fault = "range" THEN IterReturn(st, ErrRange, <<>>, <<>>)
    ELSE LET r == GetAllAssetsFrom(st, GetStateByRange(st), 1, <<>>, failAt,
                                   <<>>)
         IN IF r.err = NoErr THEN [r EXCEPT !.calls = Append(@, "Close")]
            ELSE r

\* GetAllAssets: no iterator when the range query fails; else the deferred
\* Close runs as the function returns, whichever return it is.
GetAllAssets(st, fault, failAt) ==
    IF fault = "range" THEN IterReturn(st, ErrRange, <<>>, <<>>)
    ELSE LET r == GetAllAssetsFrom(st, GetStateByRange(st), 1, <<>>, failAt,
                                   <<>>)
         IN [r EXCEPT !.calls = Append(@, "Close")]

-----------------------------------------------------------------------------
(* The state machine: one transaction per step.  call is the transaction
   invoked last, ret what it returned, pre the world state it started from,
   iter the calls it made on the iterator of its range query. *)

Call(op, args, fault, failAt) ==
    [op |-> op, args |-> args, fault |-> fault, failAt |-> failAt]

\* A client that invokes nothing at the same time as another.
Idle == [pc |-> "idle", err |-> NoErr]

\* The transactions run one at a time, each as a whole.
OneAtATime ==
    /\ caller = [c \in Callers |-> Idle]
    /\ serialized = TRUE
    /\ sameKey = Nil

Init ==
    /\ store = [k \in AllKeys |-> Nil]
    /\ pre = store
    /\ call = Call("none", <<>>, "none", 0)
    /\ ret = [err |-> NoErr, val |-> <<>>]
    /\ iter = <<>>
    /\ OneAtATime

Commit(c, r) ==
    /\ pre' = store
    /\ call' = c
    /\ store' = r.store
    /\ ret' = [err |-> r.err, val |-> r.val]
    /\ iter' = IF "calls" \in DOMAIN r THEN r.calls ELSE <<>>

Apply(c, r) ==
    /\ Commit(c, r)
    /\ UNCHANGED <<caller, serialized, sameKey>>

DoInitLedger ==
    \E failAt \in 0..Min(MaxSeedFault, Len(SeedAssets)) :
        Apply(Call("InitLedger", <<>>, IF failAt = 0 THEN "none" ELSE "put",
                   failAt),
              InitLedger(store, failAt))

DoCreateAsset ==
    \E k \in Keys, f \in FieldInputs, fault \in {"none", "get", "put"} :
        Apply(Call("CreateAsset", <<k, f[1], f[2], f[3]>>, fault, 0),
              CreateAsset(store, k, f[1], f[2], f[3], fault))

DoReadAsset ==
    \E k \in Keys, fault \in {"none", "get"} :
        Apply(Call("ReadAsset", <<k>>, fault, 0), ReadAsset(store, k, fault))

DoUpdateAsset ==
    \E k \in Keys, f \in FieldInputs, fault \in {"none", "get", "put"} :
        Apply(Call("UpdateAsset", <<k, f[1], f[2], f[3]>>, fault, 0),
              UpdateAsset(store, k, f[1], f[2], f[3], fault))

DoDeleteAsset ==
    \E k \in Keys, fault \in {"none", "get", "del"} :
        Apply(Call("DeleteAsset", <<k>>, fault, 0),
              DeleteAsset(store, k, fault))

DoAssetExists ==
    \E k \in Keys, fault \in {"none", "get"} :
        Apply(Call("AssetExists", <<k>>, fault, 0),
              AssetExists(store, k, fault))

DoTransferAsset ==
    \E k \in Keys, t \in TransferInputs, fault \in {"none", "get", "put"} :
        Apply(Call("TransferAsset", <<k, t[1], t[2]>>, fault, 0),
              TransferAsset(store, k, t[1], t[2], fault))

DoGetAllAssets ==
    \/ Apply(Call("GetAllAssets", <<>>, "none", 0),
             GetAllAssets(store, "none", 0))
    \/ Apply(Call("GetAllAssets", <<>>, "range", 0),
             GetAllAssets(store, "range", 0))
    \/ \E failAt \in 1..Min(MaxNextFault,
                           Cardinality({k \in AllKeys : store[k] # Nil})) :
           Apply(Call("GetAllAssets", <<>>, "next", failAt),
                 GetAllAssets(store, "none", failAt))

Next ==
    \/ DoInitLedger
    \/ DoCreateAsset
    \/ DoReadAsset
    \/ DoUpdateAsset
    \/ DoDeleteAsset
    \/ DoAssetExists
    \/ DoTransferAsset
    \/ DoGetAllAssets

Spec == Init /\ [][Next]_vars

\* A value that is no well-formed JSON: a string literal that ends in a
\* lone backslash.
Malformed == << <<"custodianName", <<92>>>> >>

\* The world state is the ledger's: a key may hold a value that this
\* contract did not write.  Here one key holds a malformed value when the
\* transactions start.
InitCorrupt ==
    /\ \E bad \in {Zaki, Aya} :
          store = [k \in AllKeys |-> IF k = bad THEN Malformed ELSE Nil]
    /\ pre = store
    /\ call = Call("none", <<>>, "none", 0)
    /\ ret = [err |-> NoErr, val |-> <<>>]
    /\ iter = <<>>
    /\ OneAtATime

SpecCorrupt == InitCorrupt /\ [][Next]_vars

\* The arguments of client c's CreateAsset: the key all clients pass, and a
\* case number of its own.
CallerArgs(c) == <<sameKey, KDN, <<48 + c>>, Evidence1>>

CallerAsset(c) ==
    Asset(CallerArgs(c)[1], CallerArgs(c)[2], CallerArgs(c)[3],
          CallerArgs(c)[4])

Done(c, err) == [caller EXCEPT ![c] = [pc |-> "done", err |-> err]]

\* Client c's CreateAsset as one transaction of a store that serializes
\* them: the existence check and the put with nothing in between.
CallerCreate(c) ==
    /\ serialized
    /\ caller[c].pc = "start"
    /\ LET a == CallerArgs(c)
           r == CreateAsset(store, a[1], a[2], a[3], a[4], "none")
       IN /\ Commit(Call("CreateAsset", a, "none", 0), r)
          /\ caller' = Done(c, r.err)
    /\ UNCHANGED <<serialized, sameKey>>

\* Without that: the existence check of client c's CreateAsset, up to its
\* returns.
CallerExists(c) ==
    /\ ~serialized
    /\ caller[c].pc = "start"
    /\ LET exists == AssetExists(store, sameKey, "none")
       IN caller' = IF exists.err # NoErr THEN Done(c, exists.err)
                    ELSE IF exists.val THEN Done(c, ErrExists)
                    ELSE [caller EXCEPT ![c].pc = "put"]
    /\ UNCHANGED <<store, pre, call, ret, iter, serialized, sameKey>>

\* Without that: the put of client c's CreateAsset, whatever other clients
\* did since its existence check.
CallerPut(c) ==
    /\ ~serialized
    /\ caller[c].pc = "put"
    /\ LET put == PutState(store, sameKey, Marshal(CallerAsset(c)), "none")
       IN /\ Commit(Call("CreateAsset", CallerArgs(c), "none", 0),
                    Return(put.store, put.err, <<>>))
          /\ caller' = Done(c, put.err)
    /\ UNCHANGED <<serialized, sameKey>>

\* All clients are about to invoke CreateAsset with one key, which is
\* Absent, on the empty world state or the seeded one.
InitConcurrent ==
    /\ store \in {[k \in AllKeys |-> Nil],
                 InitLedger([k \in AllKeys |-> Nil], 0).store}
    /\ pre = store
    /\ call = Call("none", <<>>, "none", 0)
    /\ ret = [err |-> NoErr, val |-> <<>>]
    /\ iter = <<>>
    /\ caller = [c \in Callers |-> [pc |-> "start", err |-> NoErr]]
    /\ serialized \in BOOLEAN
    /\ sameKey \in {k \in Keys : store[k] = Nil}

NextConcurrent ==
    \E c \in Callers :
        \/ CallerCreate(c)
        \/ CallerExists(c)
        \/ CallerPut(c)

SpecConcurrent == InitConcurrent /\ [][NextConcurrent]_vars

-----------------------------------------------------------------------------
(* Properties. *)

Present(st, k) == st[k] # Nil

\* The record that a stored value decodes to.
Stored(st, k) == Unmarshal(st[k]).asset

\* The first argument of the transaction invoked last: its key.
CallKey == call.args[1]

Succeeded(op) == call.op = op /\ ret.err = NoErr

\* C1: CreateAsset on a key that is Present returns the already-exists
\* error whatever its other arguments, and writes nothing: the world state
\* is the one before the call, and ReadAsset of the key then returns the
\* record that was there.  (The read of the existence check succeeds: a
\* failing read is the store's error, not the contract's.)
C1_CreateOnPresentFails ==
    (call.op = "CreateAsset" /\ call.fault # "get" /\ Present(pre, CallKey))
        => /\ ret.err = ErrExists
           /\ store = pre
           /\ ReadAsset(store, CallKey, "none").err = NoErr
           /\ ReadAsset(store, CallKey, "none").val = Stored(pre, CallKey)

\* A CreateAsset on a Present key whose arguments differ from the record.
C1_Witness ==
    /\ call.op = "CreateAsset"
    /\ call.fault = "none"
    /\ Present(pre, CallKey)
    /\ ret.err = ErrExists
    /\ Stored(pre, CallKey).custodianAgency # call.args[2]
    /\ Stored(pre, CallKey).caseNumber # call.args[3]

\* C2: UpdateAsset, DeleteAsset and TransferAsset on a key that is Absent
\* return the does-not-exist error and leave the whole world state as it
\* was, the key still Absent.  (The read of the key succeeds, as in C1.)
C2_AbsentKeyFails ==
    (/\ call.op \in {"UpdateAsset", "DeleteAsset", "TransferAsset"}
     /\ call.fault # "get"
     /\ ~Present(pre, CallKey))
        => /\ ret.err = ErrNotExist
           /\ store = pre
           /\ ~Present(store, CallKey)

\* An UpdateAsset on an Absent key while another key holds a record.
C2_Witness ==
    /\ call.op = "UpdateAsset"
    /\ call.fault = "none"
    /\ ~Present(pre, CallKey)
    /\ ret.err = ErrNotExist
    /\ \E k \in AllKeys : Present(store, k)

\* C3: in every reachable world state the key space is the set of
\* custodianName values: the record under key k has custodianName = k, and
\* no two records have the same custodianName.
C3_KeySpaceIsCustodianNames ==
    /\ \A k \in AllKeys : Present(store, k) => Stored(store, k).custodianName = k
    /\ \A j, k \in AllKeys :
          (Present(store, j) /\ Present(store, k) /\ j # k)
              => Stored(store, j).custodianName # Stored(store, k).custodianName

\* Whether a Go string is well-formed UTF-8.
RECURSIVE ValidUTF8From(_, _)
ValidUTF8From(s, i) ==
    IF i > Len(s) THEN TRUE
    ELSE IF s[i] < 128 THEN ValidUTF8From(s, i + 1)
    ELSE RuneLen(s, i) > 0 /\ ValidUTF8From(s, i + RuneLen(s, i))

ValidUTF8(s) == ValidUTF8From(s, 1)

\* C4 as stated: a successful TransferAsset(k, newName, newAgency) returns
\* the custodianName stored before the call, and the record then stored at k
\* has custodianName = newName, custodianAgency = newAgency and the
\* caseNumber and evidenceInfo it had.
C4_TransferRewritesCustodian ==
    Succeeded("TransferAsset")
        => /\ ret.val = Stored(pre, CallKey).custodianName
           /\ Stored(store, CallKey) =
                 Asset(call.args[2], call.args[3],
                       Stored(pre, CallKey).caseNumber,
                       Stored(pre, CallKey).evidenceInfo)

\* C4 as amended: the same, the two new fields being those passed when the
\* string passed is valid UTF-8.
C4_TransferRewritesValidCustodian ==
    Succeeded("TransferAsset")
        => /\ ret.val = Stored(pre, CallKey).custodianName
           /\ Present(store, CallKey)
           /\ Stored(store, CallKey).caseNumber
                 = Stored(pre, CallKey).caseNumber
           /\ Stored(store, CallKey).evidenceInfo
                 = Stored(pre, CallKey).evidenceInfo
           /\ ValidUTF8(call.args[2])
                 => Stored(store, CallKey).custodianName = call.args[2]
           /\ ValidUTF8(call.args[3])
                 => Stored(store, CallKey).custodianAgency = call.args[3]

\* A successful transfer to a valid name and agency, both new to the record.
C4_Witness ==
    /\ Succeeded("TransferAsset")
    /\ ValidUTF8(call.args[2]) /\ ValidUTF8(call.args[3])
    /\ Stored(pre, CallKey).custodianName # call.args[2]
    /\ Stored(pre, CallKey).custodianAgency # call.args[3]
    /\ Stored(store, CallKey).custodianName = call.args[2]

\* C5 as stated: after a successful UpdateAsset(k, agency, caseNumber,
\* evidenceInfo), ReadAsset(k) returns exactly the record of k and these
\* arguments, whatever the record before.
C5_UpdateReplacesRecord ==
    Succeeded("UpdateAsset")
        => /\ ReadAsset(store, CallKey, "none").err = NoErr
           /\ ReadAsset(store, CallKey, "none").val
                 = Asset(call.args[1], call.args[2], call.args[3],
                         call.args[4])

\* C5 as amended: the same for arguments that are valid UTF-8.
C5_UpdateReplacesValidRecord ==
    (Succeeded("UpdateAsset") /\ \A i \in 1..4 : ValidUTF8(call.args[i]))
        => /\ ReadAsset(store, CallKey, "none").err = NoErr
           /\ ReadAsset(store, CallKey, "none").val
                 = Asset(call.args[1], call.args[2], call.args[3],
                         call.args[4])

\* A successful update, with valid arguments, of a record that an earlier
\* TransferAsset gave another custodianName, no field keeping its value.
C5_Witness ==
    /\ Succeeded("UpdateAsset")
    /\ \A i \in 1..4 : ValidUTF8(call.args[i])
    /\ Stored(pre, CallKey).custodianName # CallKey
    /\ Stored(pre, CallKey).custodianAgency # call.args[2]
    /\ Stored(pre, CallKey).caseNumber # call.args[3]
    /\ Stored(pre, CallKey).evidenceInfo # call.args[4]

\* C6: AssetExists returns true exactly when the key has a value, with no
\* error but that of a failing read; a key without a value stays so (and
\* AssetExists false) until a CreateAsset of it succeeds or InitLedger seeds
\* it; AssetExists is true after a successful CreateAsset and false after a
\* successful DeleteAsset.
C6_ExistsFollowsPresence ==
    /\ call.op = "AssetExists"
          => IF call.fault = "get" THEN ret.err = ErrRead
             ELSE ret.err = NoErr /\ ret.val = Present(store, CallKey)
    /\ Succeeded("CreateAsset") => AssetExists(store, CallKey, "none").val
    /\ Succeeded("DeleteAsset") => ~AssetExists(store, CallKey, "none").val
    /\ \A k \in AllKeys :
          (/\ ~Present(pre, k)
           /\ ~(Succeeded("CreateAsset") /\ CallKey = k)
           /\ ~(call.op = "InitLedger" /\ k \in SeedKeys))
              => /\ AssetExists(store, k, "none").err = NoErr
                 /\ ~AssetExists(store, k, "none").val

\* A successful DeleteAsset of a key that only CreateAsset can have written.
C6_Witness ==
    /\ Succeeded("DeleteAsset")
    /\ CallKey \notin SeedKeys
    /\ Present(pre, CallKey)
    /\ ~AssetExists(store, CallKey, "none").val

\* C7 as stated: a successful CreateAsset(k, a, c, e) followed by
\* ReadAsset(k) returns the record of k, a, c and e, for all field values.
C7_CreateThenRead ==
    Succeeded("CreateAsset")
        => /\ ReadAsset(store, CallKey, "none").err = NoErr
           /\ ReadAsset(store, CallKey, "none").val
                 = Asset(call.args[1], call.args[2], call.args[3],
                         call.args[4])

\* C7 as amended: the same for field values that are valid UTF-8.
C7_CreateThenReadValid ==
    (Succeeded("CreateAsset") /\ \A i \in 1..4 : ValidUTF8(call.args[i]))
        => /\ ReadAsset(store, CallKey, "none").err = NoErr
           /\ ReadAsset(store, CallKey, "none").val
                 = Asset(call.args[1], call.args[2], call.args[3],
                         call.args[4])

\* A successful CreateAsset of an Absent key with valid field values, one
\* of them holding a character that JSON escapes.
C7_Witness ==
    /\ Succeeded("CreateAsset")
    /\ ~Present(pre, CallKey)
    /\ \A i \in 1..4 : ValidUTF8(call.args[i])
    /\ \E i \in 1..Len(call.args[4]) : call.args[4][i] = 34
    /\ Stored(store, CallKey).evidenceInfo = call.args[4]

PresentKeys(st) == {k \in DOMAIN st : Present(st, k)}

\* The seed records in the order of their keys: Adi, Aya, Azmi, Dan,
\* Mirul, Zaki.
SeedAssetsByKey ==
    <<SeedAssets[3], SeedAssets[2], SeedAssets[5], SeedAssets[4],
      SeedAssets[6], SeedAssets[1]>>

\* C8: a successful GetAllAssets returns one record per Present key, in key
\* order, each the record stored at its key, as many as there are Present
\* keys; after InitLedger on the empty world state it returns the six seed
\* records in key order.
C8_GetAllReturnsEveryRecord ==
    /\ Succeeded("GetAllAssets")
          => /\ Len(ret.val) = Cardinality(PresentKeys(store))
             /\ \A k \in PresentKeys(store) :
                   LET rank == Cardinality({j \in PresentKeys(store) :
                                               LexLess(j, k)}) + 1
                   IN ret.val[rank] = Stored(store, k)
    /\ (Succeeded("InitLedger") /\ PresentKeys(pre) = {})
          => /\ GetAllAssets(store, "none", 0).err = NoErr
             /\ GetAllAssets(store, "none", 0).val = SeedAssetsByKey

\* A successful GetAllAssets over the seed keys and one more key, one of the
\* records being a transferred one.
C8_Witness ==
    /\ Succeeded("GetAllAssets")
    /\ Len(ret.val) = Len(SeedAssets) + 1
    /\ \E k \in PresentKeys(store) : Stored(store, k).custodianName # k

\* The names of the members of a stored value, in their order.
MemberNames(value) == [i \in 1..Len(value) |-> value[i][1]]

\* The record that the transaction invoked last handed to json.Marshal for
\* key k, when it wrote k.
Written(k) ==
    IF call.op = "InitLedger"
       THEN CHOOSE a \in {SeedAssets[i] : i \in 1..Len(SeedAssets)} :
                a.custodianName = k
    ELSE IF call.op = "TransferAsset"
       THEN [Stored(pre, k) EXCEPT !.custodianName = call.args[2],
                                   !.custodianAgency = call.args[3]]
    ELSE Asset(call.args[1], call.args[2], call.args[3], call.args[4])

\* C9: every value that InitLedger, CreateAsset, UpdateAsset and
\* TransferAsset write is the one encoding of the record they built, and
\* every stored value lists the fields in the alphabetical order caseNumber,
\* custodianAgency, custodianName, evidenceInfo.
C9_AlphabeticalEncoding ==
    /\ \A k \in AllKeys :
          (Present(store, k) /\ store[k] # pre[k])
              => store[k] = Marshal(Written(k))
    /\ \A k \in AllKeys :
          Present(store, k)
              => MemberNames(store[k])
                    = <<"caseNumber", "custodianAgency", "custodianName",
                        "evidenceInfo">>

\* C10: a successful InitLedger, on any world state, leaves each seed key
\* with its hard-coded record and every other key as it was; then
\* AssetExists("Zaki") is true and ReadAsset("Zaki") returns the first seed
\* record, and after DeleteAsset("Zaki") AssetExists("Zaki") is false and
\* ReadAsset("Zaki") fails with the does-not-exist error.
C10_InitLedgerOverwrites ==
    Succeeded("InitLedger")
        => /\ \A i \in 1..Len(SeedAssets) :
                 /\ Present(store, SeedAssets[i].custodianName)
                 /\ Stored(store, SeedAssets[i].custodianName) = SeedAssets[i]
           /\ \A k \in AllKeys \ SeedKeys : store[k] = pre[k]
           /\ AssetExists(store, Zaki, "none").val
           /\ ReadAsset(store, Zaki, "none").err = NoErr
           /\ ReadAsset(store, Zaki, "none").val
                 = Asset(Zaki, RCED, <<49>>, Evidence1)
           /\ LET del == DeleteAsset(store, Zaki, "none")
              IN /\ del.err = NoErr
                 /\ ~AssetExists(del.store, Zaki, "none").val
                 /\ ReadAsset(del.store, Zaki, "none").err = ErrNotExist

\* A successful InitLedger on a world state where "Zaki" held another
\* record and a key that is no seed key held one too.
C10_Witness ==
    /\ Succeeded("InitLedger")
    /\ Present(pre, Zaki)
    /\ Stored(pre, Zaki) # SeedAssets[1]
    /\ \E k \in AllKeys \ SeedKeys : Present(pre, k)

\* C11: when the PutState of the i-th seed record fails, InitLedger returns
\* an error; the records before position i are in the world state, and the
\* keys of the records from position i on, like every other key, hold what
\* they held before the call.
C11_InitLedgerStopsAtFailure ==
    (call.op = "InitLedger" /\ call.failAt > 0)
        => /\ ret.err = ErrPutSeed
           /\ \A j \in 1..Len(SeedAssets) :
                 LET k == SeedAssets[j].custodianName
                 IN IF j < call.failAt
                       THEN Present(store, k) /\ Stored(store, k) = SeedAssets[j]
                       ELSE store[k] = pre[k]
           /\ \A k \in AllKeys \ SeedKeys : store[k] = pre[k]

\* An InitLedger whose third PutState fails, on a world state without
\* any seed record: the first two are written, the other four are not.
C11_Witness ==
    /\ call.op = "InitLedger"
    /\ call.failAt = 3
    /\ ret.err = ErrPutSeed
    /\ PresentKeys(pre) \cap SeedKeys = {}
    /\ PresentKeys(store) \cap SeedKeys = {Zaki, Aya}
\* How often the last transaction made the call c on its iterator.
IterCount(c) == Cardinality({i \in 1..Len(iter) : iter[i] = c})

\* C12: when GetAllAssets has opened the range query, it closes the
\* iterator exactly once, as its last call on it, on every return: the end
\* of the iteration, a failing Next, an entry that does not decode; when the
\* range query fails there is no iterator and no Close.
C12_IteratorClosedOnce ==
    /\ call.op = "GetAllAssets"
          => IF call.fault = "range" THEN ret.err = ErrRange /\ iter = <<>>
             ELSE /\ IterCount("Close") = 1
                  /\ iter[Len(iter)] = "Close"
    /\ call.op # "GetAllAssets" => iter = <<>>

\* A GetAllAssets that returns at an entry that does not decode, after a
\* Next, with the iterator closed.
C12_Witness ==
    /\ call.op = "GetAllAssets"
    /\ ret.err = ErrUnmarshal
    /\ IterCount("Next") >= 2
    /\ iter[Len(iter)] = "Close"

\* The position in key order of key k among the keys that have a value.
Rank(st, k) == Cardinality({j \in PresentKeys(st) : LexLess(j, k)}) + 1

\* The positions at which a GetAllAssets fails: that of the failing Next
\* and those of the entries that do not decode.
FailingPositions ==
    {Rank(pre, k) : k \in {j \in PresentKeys(pre) : Unmarshal(pre[j]).err}}
        \cup (IF call.fault = "next" THEN {call.failAt} ELSE {})

FirstFailure ==
    CHOOSE p \in FailingPositions : \A q \in FailingPositions : p <= q

\* C13: when an entry met by GetAllAssets does not decode, or a Next fails,
\* the call returns the error of the first such entry and no records; it
\* reads no entry after that one (it has made as many Next calls as the
\* position of the entry), and only without such an entry does it succeed.
C13_GetAllAbortsOnFailure ==
    (call.op = "GetAllAssets" /\ call.fault # "range")
        => IF FailingPositions = {} THEN ret.err = NoErr
           ELSE /\ ret.err = IF call.fault = "next" /\ call.failAt = FirstFailure
                                THEN ErrNext ELSE ErrUnmarshal
                /\ ret.val = <<>>
                /\ IterCount("Next") = FirstFailure
                /\ store = pre

\* A GetAllAssets that meets a malformed entry after one that decodes and
\* before another one.
C13_Witness ==
    /\ call.op = "GetAllAssets"
    /\ call.fault = "none"
    /\ ret.err = ErrUnmarshal
    /\ ret.val = <<>>
    /\ FirstFailure = 2
    /\ Cardinality(PresentKeys(pre)) >= 3
\* C14: a key is Absent or Present.  It becomes Present only by a
\* successful CreateAsset of it or, a seed key, by InitLedger; it becomes
\* Absent only by a successful DeleteAsset of it; UpdateAsset and
\* TransferAsset leave every key's presence as it is; ReadAsset, AssetExists
\* and GetAllAssets leave the world state as it is.
C14_PresenceAutomaton ==
    /\ \A k \in AllKeys :
          /\ (~Present(pre, k) /\ Present(store, k))
                => \/ Succeeded("CreateAsset") /\ CallKey = k
                   \/ call.op = "InitLedger" /\ k \in SeedKeys
          /\ (Present(pre, k) /\ ~Present(store, k))
                => Succeeded("DeleteAsset") /\ CallKey = k
    /\ (Succeeded("CreateAsset") \/ Succeeded("DeleteAsset"))
          => Present(store, CallKey) = ~Present(pre, CallKey)
    /\ call.op \in {"UpdateAsset", "TransferAsset"}
          => PresentKeys(store) = PresentKeys(pre)
    /\ call.op \in {"ReadAsset", "AssetExists", "GetAllAssets"}
          => store = pre

\* A successful TransferAsset to the name of a key that is Absent: the key
\* of the record stays Present, the key of the new name Absent.
C14_Witness ==
    /\ Succeeded("TransferAsset")
    /\ call.args[2] \in AllKeys
    /\ Present(store, CallKey)
    /\ ~Present(store, call.args[2])
    /\ store # pre

\* C15: a successful TransferAsset(k, newName, newAgency) changes the world
\* state at key k only, where the record stays: every other key, the key
\* newName too, holds what it held, so AssetExists(newName) is as before.
C15_TransferFrame ==
    Succeeded("TransferAsset")
        => /\ Present(store, CallKey)
           /\ \A j \in AllKeys \ {CallKey} : store[j] = pre[j]
           /\ call.args[2] \in AllKeys \ {CallKey}
                 => AssetExists(store, call.args[2], "none").val
                       = Present(pre, call.args[2])

\* A successful TransferAsset to the name of another key that holds a
\* record of its own, which it keeps.
C15_Witness ==
    /\ Succeeded("TransferAsset")
    /\ call.args[2] \in AllKeys \ {CallKey}
    /\ Present(pre, call.args[2])
    /\ store[call.args[2]] = pre[call.args[2]]
    /\ Stored(store, CallKey).custodianName = call.args[2]
    /\ Stored(pre, CallKey).custodianName # call.args[2]
SingleKeyOps ==
    {"CreateAsset", "ReadAsset", "UpdateAsset", "DeleteAsset", "AssetExists",
     "TransferAsset"}

\* C17: a single-key transaction that returns an error leaves the world
\* state as it was before the call; a failing read is the error it returns,
\* with nothing put or deleted after it; a failing put or delete is reported
\* only when the checks before it passed, and always reported; a failing
\* TransferAsset returns no name.
C17_ErrorsLeaveStore ==
    call.op \in SingleKeyOps
        => /\ ret.err # NoErr => store = pre
           /\ call.fault = "get" => (ret.err = ErrRead /\ store = pre)
           /\ call.fault # "none" => ret.err # NoErr
           /\ ret.err \in {ErrPut, ErrDel}
                 => Present(pre, CallKey) = (call.op # "CreateAsset")
           /\ (call.op = "TransferAsset" /\ ret.err # NoErr) => ret.val = <<>>

\* A put that fails after the checks passed, on a ledger that holds a
\* record: the record is as it was.
C17_Witness ==
    /\ call.op \in {"UpdateAsset", "TransferAsset"}
    /\ ret.err = ErrPut
    /\ Present(pre, CallKey)
    /\ store = pre

\* A read of the existence check that fails where the put would have
\* written: nothing is written.
C17_WitnessRead ==
    /\ call.op = "CreateAsset"
    /\ call.fault = "get"
    /\ ~Present(pre, CallKey)
    /\ ret.err = ErrRead
    /\ store = pre
\* The world state that InitLedger leaves when it runs on the empty one.
SeededStore == InitLedger([k \in AllKeys |-> Nil], 0).store

\* C18: on the world state that InitLedger leaves from the empty one,
\* TransferAsset with a seeded CaseNumber, "1" to "6", as its first argument
\* returns the not-exist error and writes nothing; TransferAsset succeeds
\* there exactly on the keys that are the seeded custodian names, and then
\* rewrites the record of that custodian.
C18_TransferByCaseNumberNotFound ==
    /\ (call.op = "InitLedger" /\ ret.err = NoErr
            /\ pre = [k \in AllKeys |-> Nil])
          => /\ store = SeededStore
             /\ \A c \in AllKeys, t \in TransferInputs :
                   LET r == TransferAsset(store, c, t[1], t[2], "none")
                   IN /\ c \in SeedCaseNumbers
                            => (r.err = ErrNotExist /\ r.store = store)
                      /\ (r.err = NoErr) = (c \in SeedKeys)
    /\ (call.op = "TransferAsset" /\ call.fault = "none" /\ pre = SeededStore)
          => /\ CallKey \in SeedCaseNumbers
                   => (ret.err = ErrNotExist /\ store = pre)
             /\ (ret.err = NoErr) = (CallKey \in SeedKeys)
             /\ ret.err = NoErr
                   => /\ ret.val = CallKey
                      /\ Stored(pre, CallKey).custodianName = CallKey

\* TransferAsset of the case number "1" right after InitLedger ran on the
\* empty world state: not found, while the record of case "1" is there
\* under Zaki.
C18_Witness ==
    /\ call.op = "TransferAsset"
    /\ call.fault = "none"
    /\ CallKey = SeedAssets[1].caseNumber
    /\ pre = SeededStore
    /\ Stored(pre, Zaki).caseNumber = CallKey
    /\ ret.err = ErrNotExist
    /\ store = pre
\* The transaction invoked last may have written key k.
WritesTo(k) ==
    \/ call.op = "InitLedger"
    \/ /\ call.op \in {"CreateAsset", "UpdateAsset", "DeleteAsset",
                       "TransferAsset"}
       /\ CallKey = k

\* What a chain of transfers rests on, step by step: a transaction that is
\* no write to k leaves the value at k; a successful TransferAsset on k
\* returns the custodianName stored at k before it and keeps the caseNumber
\* and evidenceInfo stored there.
ChainStep ==
    /\ \A k \in AllKeys : ~WritesTo(k)' => store'[k] = store[k]
    /\ Succeeded("TransferAsset")'
          => /\ ret'.val = Stored(store, CallKey').custodianName
             /\ Stored(store', CallKey').caseNumber
                   = Stored(store, CallKey').caseNumber
             /\ Stored(store', CallKey').evidenceInfo
                   = Stored(store, CallKey').evidenceInfo

\* A successful TransferAsset on the key of the successful TransferAsset
\* just before it.
NextInChain ==
    /\ Succeeded("TransferAsset")
    /\ Succeeded("TransferAsset")'
    /\ CallKey' = CallKey

\* C19 as stated: in a sequence of successful TransferAsset calls on a
\* Present key k with no other write to k in between, the first returns
\* the custodianName stored before it, each later one the newName argument
\* of the call just before it, and caseNumber and evidenceInfo at k stay as
\* they were.
C19_TransferChain ==
    [][ /\ ChainStep
        /\ NextInChain => ret'.val = call.args[2] ]_vars

\* C19 as amended: each later call returns the newName of the call before
\* it when that is valid UTF-8, and else the name the encoder stored for
\* it, U+FFFD in the place of each invalid byte.
C19_TransferChainValid ==
    [][ /\ ChainStep
        /\ NextInChain
              => /\ ret'.val = DecodeString(EncodeString(call.args[2]))
                 /\ ValidUTF8(call.args[2]) => ret'.val = call.args[2] ]_vars

\* The second transfer of a chain on a seed key: it returns the name that
\* the first gave, which is not the key, and the case number is the seed's.
C19_Witness ==
    /\ Succeeded("TransferAsset")
    /\ CallKey = Zaki
    /\ ret.val = Aya
    /\ call.args[2] # Aya
    /\ Stored(pre, CallKey).custodianName = Aya
    /\ Stored(store, CallKey).caseNumber = SeedAssets[1].caseNumber
\* A value is the encoding of a record: it decodes, and its members are
\* the four fields.
WellFormed(value) ==
    /\ ~Unmarshal(value).err
    /\ MemberNames(value) = AssetFields

\* C20: in every world state that the transactions of this contract reach
\* from the empty one, every value is the well-formed encoding of a record:
\* ReadAsset of a Present key, TransferAsset and GetAllAssets meet no
\* decoding error, and AssetExists(k) is true exactly when ReadAsset(k)
\* succeeds.
C20_StoredValuesDecode ==
    /\ \A k \in AllKeys :
          /\ Present(store, k) => WellFormed(store[k])
          /\ AssetExists(store, k, "none").val
                = (ReadAsset(store, k, "none").err = NoErr)
    /\ GetAllAssets(store, "none", 0).err = NoErr
    /\ ret.err # ErrUnmarshal
    /\ (call.op = "ReadAsset" /\ call.fault = "none")
          => (ret.err = NoErr) = Present(pre, CallKey)
    /\ (call.op = "GetAllAssets" /\ call.fault = "none") => ret.err = NoErr

\* A ReadAsset that returns a record whose evidenceInfo has quotes in it,
\* which CreateAsset or UpdateAsset stored.
C20_Witness ==
    /\ Succeeded("ReadAsset")
    /\ ret.val.evidenceInfo = <<83, 73, 77, 34, 57, 34>>
    /\ AssetExists(store, CallKey, "none").val
    /\ \E k \in AllKeys : ~Present(store, k)
\* The clients whose CreateAsset has returned, and those it returned no
\* error to.
Returned == {c \in Callers : caller[c].pc = "done"}

Winners == {c \in Returned : caller[c].err = NoErr}

\* C16: when the store runs each transaction as a whole, of the clients
\* that invoke CreateAsset with the same Absent key exactly one is returned
\* no error, whatever the order, every other one the already-exists error,
\* and the record stored is that one's.  When the store does not, every
\* client is still returned one of the two, and the record stored is that of
\* one that was returned no error.
C16_SerializedCreateOnce ==
    /\ \A c \in Returned : caller[c].err \in {NoErr, ErrExists}
    /\ Returned # {} => Winners # {}
    /\ Present(store, sameKey)
          => \E c \in Winners : store[sameKey] = Marshal(CallerAsset(c))
    /\ serialized
          => /\ Cardinality(Winners) <= 1
             /\ \A c \in Winners : store[sameKey] = Marshal(CallerAsset(c))
             /\ Winners = {} => ~Present(store, sameKey)

\* Serialized, every client has returned: one of them was first, and the
\* one invoked last got the already-exists error.
C16_Witness ==
    /\ serialized
    /\ Returned = Callers
    /\ Cardinality(Winners) = 1
    /\ ret.err = ErrExists
    /\ store = pre

\* Not serialized: two clients were returned no error, and the record of
\* one of them is gone.
C16_LostCreate ==
    /\ ~serialized
    /\ Cardinality(Winners) > 1
    /\ \E c \in Winners : store[sameKey] # Marshal(CallerAsset(c))
=============================================================================
